---- MODULE Spec2Model ----
(***************************************************************************)
(* Model of the aws_automation_project orchestration code:                 *)
(*   scripts/terraform_runner.py  run_command, run_terraform,              *)
(*                                destroy_infrastructure                   *)
(*   scripts/aws_config.py        AWSConfig._validate_lb_name,             *)
(*                                AWSConfig.from_user_input                *)
(*                                                                         *)
(* Text is modelled as follows.  A line of process output is a record      *)
(* [n, txt]: txt is the line's text and n the position of the write that   *)
(* produced it in the child's script, so that two writes of the same text  *)
(* stay distinguishable.  A captured stream (''.join(lines)) is the        *)
(* sequence of its lines.  A load-balancer name is a sequence of           *)
(* one-character strings.                                                  *)
(*                                                                         *)
(* A child process is a script of line writes to stdout and stderr through *)
(* pipes of PipeCap lines, followed by an exit with code 0 or 1, or by     *)
(* nothing at all (the child hangs).  A write to a full pipe blocks the    *)
(* child; a readline() on an empty pipe blocks the reader until a line     *)
(* arrives or the child has exited.  Wall-clock time is the single event   *)
(* "the timeout has elapsed since the child was started".                  *)
(*                                                                         *)
(* Left out: what the code writes to the log and the progress glyphs it    *)
(* prints, neither of which is read back by the program.                   *)
(*                                                                         *)
(* Spec        run_terraform and destroy_infrastructure, called up to      *)
(*             MaxCalls times in any order in one Python process           *)
(* SpecConfig  _validate_lb_name on a bounded set of names, and the        *)
(*             load-balancer prompt loop of from_user_input                *)
(***************************************************************************)
EXTENDS Integers, Sequences, FiniteSets, TLC

\* ------------------------------------------------------------------ bounds
\* longest script (number of line writes) of a child process
MaxScript == 2
\* capacity of an OS pipe, in lines
PipeCap == 1
\* number of entry-point calls (run_terraform / destroy_infrastructure)
\* made in one Python process
MaxCalls == 2
\* longest freely enumerated load-balancer name
MaxShort == 3

\* ------------------------------------------------------- program constants
TimeoutDefault == 300
TimeoutInit == 60
TimeoutPlan == 120
TimeoutShow == 30
TimeoutApply == 600
TimeoutOutput == 30
MaxLbName == 32

\* ------------------------------------------------------------ the commands
CmdInit == <<"terraform", "init">>
CmdPlan == <<"terraform", "plan", "-out=tfplan">>
CmdShow == <<"terraform", "show", "tfplan">>
CmdApply == <<"terraform", "apply", "-auto-approve">>
CmdOutput == <<"terraform", "output", "-json">>
CmdDestroy == <<"terraform", "destroy", "-auto-approve">>

\* the timeout run_terraform passes to run_command for each command
TimeoutOf(cmd) ==
  CASE cmd = CmdInit -> TimeoutInit
    [] cmd = CmdPlan -> TimeoutPlan
    [] cmd = CmdShow -> TimeoutShow
    [] cmd = CmdApply -> TimeoutApply
    [] cmd = CmdOutput -> TimeoutOutput
    [] OTHER -> TimeoutDefault

\* --------------------------------------------------------------- the text
TxtNoChanges == "No changes. Your infrastructure matches the configuration."
TxtPlan == "Plan: 1 to add, 0 to change, 0 to destroy."
TxtError == "Error: creating EC2 Instance"

\* needle in txt, for the needles the code searches and the texts a child
\* writes (Python's substring test is case-sensitive)
Occurs(needle, txt) ==
  \/ needle = "No changes" /\ txt = TxtNoChanges
  \/ needle = "Error:" /\ txt = TxtError

\* readline() at end of file returns the empty string
NoLine == [n |-> 0, txt |-> ""]

\* needle in ''.join(lines): no needle holds a newline, so it occurs in the
\* joined text exactly when it occurs in one line
OccursIn(needle, lines) ==
  \E i \in 1..Len(lines) : Occurs(needle, lines[i].txt)

\* what a child may write: [fd, txt]
Writes ==
  { [fd |-> "out", txt |-> TxtNoChanges],
    [fd |-> "out", txt |-> TxtPlan],
    [fd |-> "err", txt |-> TxtError] }

RECURSIVE SeqsUpTo(_, _)
SeqsUpTo(S, k) ==
  IF k = 0 THEN { <<>> }
  ELSE LET shorter == SeqsUpTo(S, k - 1)
       IN shorter \cup { Append(s, x) : s \in { t \in shorter : Len(t) = k - 1 }, x \in S }

Scripts == SeqsUpTo(Writes, MaxScript)

\* how a child ends once its script is written: exit code 0, exit code 1,
\* or never (it neither exits nor closes its streams)
Endings == {"exit0", "exit1", "hang"}

\* the lines a script writes to one stream, in the order written
RECURSIVE WrittenFrom(_, _, _)
WrittenFrom(sc, fd, i) ==
  IF i > Len(sc) THEN <<>>
  ELSE IF sc[i].fd = fd
       THEN <<[n |-> i, txt |-> sc[i].txt]>> \o WrittenFrom(sc, fd, i + 1)
       ELSE WrittenFrom(sc, fd, i + 1)

Written(sc, fd) == WrittenFrom(sc, fd, 1)

VARIABLES
  \* ---- the Python process
  calls,         \* entry points called so far, in order
  dpc,           \* where the driver is: "idle" or the stage being run
  spawned,       \* commands spawned by the current entry-point call
  codes,         \* exit codes run_command handed back, in order
  plan_nochg,    \* the plan command wrote "No changes" to its stdout
  outcome,       \* of the last call: "none", "returned", "raised"
  retval,        \* value returned by run_terraform
  error,         \* text of the exception raised, as a sequence of parts
  \* ---- run_command / the destroy loop
  rpc,           \* position in run_command or in the destroy loop
  timeout,       \* run_command's timeout argument (0: none)
  stdout_line, stderr_line,
  stdout_lines, stderr_lines,
  \* ---- the child process and the operating system
  script, wpos, ending, exited, returncode,
  pipe_out, pipe_err,
  expired,       \* `timeout` seconds have passed since the child started
  exited_late,   \* the child exited after that deadline
  killed,        \* process.kill() was called
  \* ---- the configuration prompt (aws_config.py)
  cpc,           \* "start", "validated" (a direct call returned), "prompt", "done"
  name_arg,      \* argument of the last _validate_lb_name call
  verdict,       \* what that call returned
  lb_name        \* lb_name of the AWSConfig built, <<>> before

vars ==
  << calls, dpc, spawned, codes, plan_nochg, outcome, retval, error,
     rpc, timeout, stdout_line, stderr_line, stdout_lines, stderr_lines,
     script, wpos, ending, exited, returncode, pipe_out, pipe_err,
     expired, exited_late, killed, cpc, name_arg, verdict, lb_name >>

cfgVars == << cpc, name_arg, verdict, lb_name >>
drvVars == << calls, dpc, spawned, codes, plan_nochg, outcome, retval, error >>
runVars == << rpc, timeout, stdout_line, stderr_line, stdout_lines, stderr_lines >>
osVars == << script, wpos, ending, exited, returncode, pipe_out, pipe_err,
             expired, exited_late, killed >>

\* ------------------------------------------------------------ the child
\* the child writes its next line; a write to a full pipe blocks
ChildWrite ==
  /\ rpc \in {"readline_out", "readline_err", "destroy_loop"}
  /\ ~exited
  /\ wpos <= Len(script)
  /\ LET w == script[wpos]
         l == [n |-> wpos, txt |-> w.txt]
     IN \/ /\ w.fd = "out" /\ Len(pipe_out) < PipeCap
           /\ pipe_out' = Append(pipe_out, l) /\ UNCHANGED pipe_err
        \/ /\ w.fd = "err" /\ Len(pipe_err) < PipeCap
           /\ pipe_err' = Append(pipe_err, l) /\ UNCHANGED pipe_out
  /\ wpos' = wpos + 1
  /\ UNCHANGED << script, ending, exited, returncode, expired, exited_late, killed >>
  /\ UNCHANGED << drvVars, runVars, cfgVars >>

\* the child exits, which closes its ends of both pipes
ChildExit ==
  /\ rpc \in {"readline_out", "readline_err", "destroy_loop"}
  /\ ~exited
  /\ wpos > Len(script)
  /\ ending # "hang"
  /\ exited' = TRUE
  /\ returncode' = IF ending = "exit0" THEN 0 ELSE 1
  /\ exited_late' = expired
  /\ UNCHANGED << script, wpos, ending, pipe_out, pipe_err, expired, killed >>
  /\ UNCHANGED << drvVars, runVars, cfgVars >>

\* wall-clock time: `timeout` seconds have passed since Popen
DeadlinePasses ==
  /\ rpc \in {"readline_out", "readline_err"}
  /\ ~exited
  /\ ~expired
  /\ expired' = TRUE
  /\ UNCHANGED << script, wpos, ending, exited, returncode, pipe_out, pipe_err,
                  exited_late, killed >>
  /\ UNCHANGED << drvVars, runVars, cfgVars >>

\* a blocking readline() on a pipe can return: a line is there, or the
\* writer has gone (end of file)
CanRead(pipe) == pipe # <<>> \/ exited

\* what readline() returns
Readline(pipe) == IF pipe # <<>> THEN Head(pipe) ELSE NoLine

\* the pipe after readline()
AfterRead(pipe) == IF pipe # <<>> THEN Tail(pipe) ELSE pipe

\* mutant: the list is overwritten instead of appended to
Collect_Last(lines, line) == IF line.txt # "" THEN <<line>> ELSE lines

\* `if line: lines.append(line)`
Collect(lines, line) == IF line.txt # "" THEN Append(lines, line) ELSE lines

\* process.poll() is not None
Polled == exited

\* ------------------------------------------------------------ subprocess.Popen
\* Popen inside run_command (stage # "destroy") or inside
\* destroy_infrastructure: the child starts, or the launch fails and the
\* exception leaves the entry point (after its `except` has logged it).
\* sp: the commands spawned so far by this call.
Popen(cmd, t, stage, sp) ==
  \/ /\ \E sc \in Scripts, e \in Endings : script' = sc /\ ending' = e
     /\ wpos' = 1 /\ exited' = FALSE /\ returncode' = -1
     /\ pipe_out' = <<>> /\ pipe_err' = <<>>
     /\ expired' = FALSE /\ exited_late' = FALSE /\ killed' = FALSE
     /\ timeout' = t
     /\ stdout_line' = NoLine /\ stderr_line' = NoLine
     /\ stdout_lines' = <<>> /\ stderr_lines' = <<>>
     /\ rpc' = IF stage = "destroy" THEN "destroy_loop" ELSE "readline_out"
     /\ dpc' = stage
     /\ spawned' = Append(sp, cmd)
     /\ outcome' = "none" /\ error' = <<>>
  \/ /\ dpc' = "idle" /\ rpc' = "none"
     /\ spawned' = sp
     /\ outcome' = "raised"
     /\ error' = IF stage = "destroy"
                 THEN <<"[Errno 2] No such file or directory">>
                 ELSE <<"Command failed: ">> \o cmd
                        \o <<"\nError: ", "[Errno 2] No such file or directory">>
     /\ UNCHANGED << timeout, stdout_line, stderr_line, stdout_lines, stderr_lines >>
     /\ UNCHANGED osVars

\* ------------------------------------------------------------ run_command
\* line 44: stdout_line = process.stdout.readline()
ReadStdout ==
  /\ rpc = "readline_out"
  /\ CanRead(pipe_out)
  /\ stdout_line' = Readline(pipe_out)
  /\ pipe_out' = AfterRead(pipe_out)
  /\ rpc' = "readline_err"
  /\ UNCHANGED << timeout, stderr_line, stdout_lines, stderr_lines >>
  /\ UNCHANGED << script, wpos, ending, exited, returncode, pipe_err,
                  expired, exited_late, killed >>
  /\ UNCHANGED << drvVars, cfgVars >>

\* lines 45-58: stderr_line = process.stderr.readline(), both lines are
\* collected, and the loop ends when both are empty and the child is gone
ReadStderr ==
  /\ rpc = "readline_err"
  /\ CanRead(pipe_err)
  /\ LET line == Readline(pipe_err)
     IN /\ stderr_line' = line
        /\ pipe_err' = AfterRead(pipe_err)
        /\ stdout_lines' = Collect(stdout_lines, stdout_line)
        /\ stderr_lines' = Collect(stderr_lines, line)
        /\ rpc' = IF stdout_line.txt = "" /\ line.txt = "" /\ Polled
                  THEN "wait" ELSE "readline_out"
  /\ UNCHANGED << timeout, stdout_line >>
  /\ UNCHANGED << script, wpos, ending, exited, returncode, pipe_out,
                  expired, exited_late, killed >>
  /\ UNCHANGED << drvVars, cfgVars >>

\* lines 60-79: process.wait(timeout=timeout), then the result is built and
\* returned; TimeoutExpired kills the child and raises
RunWait ==
  /\ rpc = "wait"
  /\ IF exited
     THEN /\ rpc' = "returned"
          /\ codes' = Append(codes, returncode)
          /\ UNCHANGED << dpc, outcome, error, killed >>
     ELSE /\ expired
          /\ killed' = TRUE
          /\ rpc' = "none" /\ dpc' = "idle"
          /\ outcome' = "raised"
          /\ error' = <<"Command timed out after ", ToString(timeout), " seconds: ">>
                        \o spawned[Len(spawned)]
          /\ UNCHANGED codes
  /\ UNCHANGED << calls, spawned, plan_nochg, retval >>
  /\ UNCHANGED << timeout, stdout_line, stderr_line, stdout_lines, stderr_lines >>
  /\ UNCHANGED << script, wpos, ending, exited, returncode, pipe_out, pipe_err,
                  expired, exited_late >>
  /\ UNCHANGED cfgVars

\* ------------------------------------------------------------ run_terraform
\* mutant: only a death by signal (a negative code) counts as a failure
Failed_SignalOnly(rc) == rc < 0

\* `if result.returncode != 0` (lines 100, 105, 111, 117)
Failed(rc) == rc # 0

\* the messages of the exceptions run_terraform raises (lines 101-118)
StageFailureMsg(cmd) ==
  CASE cmd = CmdInit -> "Terraform init failed"
    [] cmd = CmdPlan -> "Terraform plan failed"
    [] cmd = CmdShow -> "Failed to show plan"
    [] cmd = CmdApply -> "Terraform apply failed"

\* mutant: the plan is always shown
NeedsShow_Always(plan_stdout) == TRUE

\* line 108: `if "No changes" not in plan_result.stdout`
NeedsShow(plan_stdout) == ~OccursIn("No changes", plan_stdout)

\* the text "{}"
EmptyJson == << [n |-> 0, txt |-> "{}"] >>

\* mutant: the captured stdout is returned whatever the exit code
OutputsOf_NoFallback(rc, out) == out

\* line 123: the value run_terraform returns
OutputsOf(rc, out) == IF rc = 0 THEN out ELSE EmptyJson

\* check_terraform_installed(): shutil.which("terraform") found nothing
NotInstalled ==
  /\ dpc' = "idle" /\ rpc' = "none"
  /\ spawned' = <<>>
  /\ outcome' = "raised"
  /\ error' = <<"Terraform is not installed or not in PATH. ",
                "Please install Terraform and try again.">>
  /\ UNCHANGED << timeout, stdout_line, stderr_line, stdout_lines, stderr_lines >>
  /\ UNCHANGED osVars

\* a stage failed: the exception is logged by the `except` of lines 125-127
\* and raised again
Raise(msg) ==
  /\ dpc' = "idle" /\ rpc' = "none"
  /\ outcome' = "raised"
  /\ error' = <<msg>>
  /\ UNCHANGED << spawned, timeout, stdout_line, stderr_line, stdout_lines, stderr_lines >>
  /\ UNCHANGED osVars

\* lines 91-99: run_terraform is called and starts `terraform init`
CallDeploy ==
  /\ dpc = "idle"
  /\ Len(calls) < MaxCalls
  /\ calls' = Append(calls, "deploy")
  /\ codes' = <<>> /\ plan_nochg' = FALSE /\ retval' = <<>>
  /\ \/ NotInstalled
     \/ Popen(CmdInit, TimeoutOf(CmdInit), "init", <<>>)
  /\ UNCHANGED cfgVars

\* lines 100-104: init returned
AfterInit ==
  /\ dpc = "init" /\ rpc = "returned"
  /\ IF Failed(returncode)
     THEN Raise(StageFailureMsg(CmdInit))
     ELSE Popen(CmdPlan, TimeoutOf(CmdPlan), "plan", spawned)
  /\ UNCHANGED << calls, codes, plan_nochg, retval, cfgVars >>

\* lines 105-116: plan returned
AfterPlan ==
  /\ dpc = "plan" /\ rpc = "returned"
  /\ IF Failed(returncode)
     THEN Raise(StageFailureMsg(CmdPlan)) /\ UNCHANGED plan_nochg
     ELSE /\ plan_nochg' = OccursIn("No changes", Written(script, "out"))
          /\ IF NeedsShow(stdout_lines)
             THEN Popen(CmdShow, TimeoutOf(CmdShow), "show", spawned)
             ELSE Popen(CmdApply, TimeoutOf(CmdApply), "apply", spawned)
  /\ UNCHANGED << calls, codes, retval, cfgVars >>

\* mutant: after show the outputs are collected at once, apply is left out
AfterShow_SkipsApply ==
  /\ dpc = "show" /\ rpc = "returned"
  /\ IF Failed(returncode)
     THEN Raise(StageFailureMsg(CmdShow))
     ELSE Popen(CmdOutput, TimeoutOf(CmdOutput), "output", spawned)
  /\ UNCHANGED << calls, codes, plan_nochg, retval, cfgVars >>

\* lines 111-116: show returned
AfterShow ==
  /\ dpc = "show" /\ rpc = "returned"
  /\ IF Failed(returncode)
     THEN Raise(StageFailureMsg(CmdShow))
     ELSE Popen(CmdApply, TimeoutOf(CmdApply), "apply", spawned)
  /\ UNCHANGED << calls, codes, plan_nochg, retval, cfgVars >>

\* lines 117-122: apply returned
AfterApply ==
  /\ dpc = "apply" /\ rpc = "returned"
  /\ IF Failed(returncode)
     THEN Raise(StageFailureMsg(CmdApply))
     ELSE Popen(CmdOutput, TimeoutOf(CmdOutput), "output", spawned)
  /\ UNCHANGED << calls, codes, plan_nochg, retval, cfgVars >>

\* line 123: output returned, run_terraform returns
AfterOutput ==
  /\ dpc = "output" /\ rpc = "returned"
  /\ dpc' = "idle" /\ rpc' = "none"
  /\ outcome' = "returned"
  /\ retval' = OutputsOf(returncode, stdout_lines)
  /\ UNCHANGED << calls, spawned, codes, plan_nochg, error, cfgVars >>
  /\ UNCHANGED << timeout, stdout_line, stderr_line, stdout_lines, stderr_lines >>
  /\ UNCHANGED osVars

\* ------------------------------------------------------------ destroy_infrastructure
\* mutant: the exit code of destroy is not looked at
DestroyFailed_Never(rc) == FALSE

\* line 154: `if process.returncode != 0`
DestroyFailed(rc) == rc # 0

\* lines 133-145: destroy_infrastructure is called and starts
\* `terraform destroy`; no timeout is given
CallDestroy ==
  /\ dpc = "idle"
  /\ Len(calls) < MaxCalls
  /\ calls' = Append(calls, "destroy")
  /\ codes' = <<>> /\ plan_nochg' = FALSE /\ retval' = <<>>
  /\ \/ NotInstalled
     \/ Popen(CmdDestroy, 0, "destroy", <<>>)
  /\ UNCHANGED cfgVars

\* lines 146-151: one turn of the loop; only stdout is read
DestroyLoop ==
  /\ dpc = "destroy" /\ rpc = "destroy_loop"
  /\ CanRead(pipe_out)
  /\ LET output == Readline(pipe_out)
     IN /\ stdout_line' = output
        /\ pipe_out' = AfterRead(pipe_out)
        /\ rpc' = IF output.txt # "" THEN "destroy_loop"
                  ELSE IF Polled THEN "destroy_wait" ELSE "destroy_loop"
  /\ UNCHANGED << timeout, stderr_line, stdout_lines, stderr_lines >>
  /\ UNCHANGED << script, wpos, ending, exited, returncode, pipe_err,
                  expired, exited_late, killed >>
  /\ UNCHANGED << drvVars, cfgVars >>

\* lines 153-160: process.wait(), then the exit code decides
DestroyWait ==
  /\ dpc = "destroy" /\ rpc = "destroy_wait"
  /\ exited
  /\ codes' = Append(codes, returncode)
  /\ dpc' = "idle" /\ rpc' = "none"
  /\ IF DestroyFailed(returncode)
     THEN outcome' = "raised" /\ error' = <<"Terraform destroy failed.">>
     ELSE outcome' = "returned" /\ error' = <<>>
  /\ UNCHANGED << calls, spawned, plan_nochg, retval, cfgVars >>
  /\ UNCHANGED << timeout, stdout_line, stderr_line, stdout_lines, stderr_lines >>
  /\ UNCHANGED osVars

\* ------------------------------------------------------------ the specification
ProcInit ==
  /\ rpc = "none" /\ timeout = 0
  /\ stdout_line = NoLine /\ stderr_line = NoLine
  /\ stdout_lines = <<>> /\ stderr_lines = <<>>
  /\ script = <<>> /\ wpos = 1 /\ ending = "hang"
  /\ exited = FALSE /\ returncode = -1
  /\ pipe_out = <<>> /\ pipe_err = <<>>
  /\ expired = FALSE /\ exited_late = FALSE /\ killed = FALSE

DriverInit ==
  /\ calls = <<>> /\ dpc = "idle"
  /\ spawned = <<>> /\ codes = <<>> /\ plan_nochg = FALSE
  /\ outcome = "none" /\ retval = <<>> /\ error = <<>>

Init ==
  /\ DriverInit
  /\ ProcInit
  /\ cpc = "off" /\ name_arg = <<>> /\ verdict = FALSE /\ lb_name = <<>>

Next ==
  \/ CallDeploy
  \/ AfterInit
  \/ AfterPlan
  \/ AfterShow
  \/ AfterApply
  \/ AfterOutput
  \/ CallDestroy
  \/ DestroyLoop
  \/ DestroyWait
  \/ ReadStdout
  \/ ReadStderr
  \/ RunWait
  \/ ChildWrite
  \/ ChildExit
  \/ DeadlinePasses

Spec == Init /\ [][Next]_vars

\* ================================================================ aws_config.py
LowerSeq == << "a", "b", "c", "d", "e", "f", "g", "h", "i", "j", "k", "l", "m", "n", "o", "p", "q", "r", "s", "t", "u", "v", "w", "x", "y", "z" >>
UpperSeq == << "A", "B", "C", "D", "E", "F", "G", "H", "I", "J", "K", "L", "M", "N", "O", "P", "Q", "R", "S", "T", "U", "V", "W", "X", "Y", "Z" >>
DigitSeq == << "0", "1", "2", "3", "4", "5", "6", "7", "8", "9" >>

Range(q) == { q[i] : i \in 1..Len(q) }

LowerChars == Range(LowerSeq)
UpperChars == Range(UpperSeq)

\* the character class [a-zA-Z0-9-]
ClassChars == LowerChars \cup UpperChars \cup Range(DigitSeq) \cup {"-"}

InClass(c) == c \in ClassChars

\* str.lower() and str.upper(), one character
LowerChar(c) ==
  IF c \in UpperChars
  THEN LowerSeq[CHOOSE i \in 1..Len(UpperSeq) : UpperSeq[i] = c]
  ELSE c

UpperChar(c) ==
  IF c \in LowerChars
  THEN UpperSeq[CHOOSE i \in 1..Len(LowerSeq) : LowerSeq[i] = c]
  ELSE c

\* name.lower()
LowerOf(name) == [i \in 1..Len(name) |-> LowerChar(name[i])]

UpperOf(name) == [i \in 1..Len(name) |-> UpperChar(name[i])]

\* line 46: aws_regions
AwsRegions ==
  { << "u", "s", "-", "e", "a", "s", "t", "-", "1" >>,
    << "u", "s", "-", "e", "a", "s", "t", "-", "2" >>,
    << "u", "s", "-", "w", "e", "s", "t", "-", "1" >>,
    << "u", "s", "-", "w", "e", "s", "t", "-", "2" >> }

\* line 44: re.match('^[a-zA-Z0-9-]+$', name).  Without re.MULTILINE `$`
\* matches at the end of the string and also just before a newline that is
\* the string's last character.
ReMatch(name) ==
  \E k \in 1..Len(name) :
    /\ \A i \in 1..k : InClass(name[i])
    /\ \/ k = Len(name)
       \/ k = Len(name) - 1 /\ name[Len(name)] = "\n"

\* lines 36-50
ValidateLbName(name) ==
  IF name = <<>> \/ Len(name) > MaxLbName THEN FALSE
  ELSE IF name[1] = "-" \/ name[Len(name)] = "-" THEN FALSE
  ELSE IF ~ReMatch(name) THEN FALSE
  ELSE IF LowerOf(name) \in AwsRegions THEN FALSE
  ELSE TRUE

\* the characters str.strip() removes, among those of the model
Whitespace == {" ", "\t", "\n"}

RECURSIVE LStrip(_)
LStrip(t) == IF t # <<>> /\ Head(t) \in Whitespace THEN LStrip(Tail(t)) ELSE t

RECURSIVE RStrip(_)
RStrip(t) ==
  IF t # <<>> /\ t[Len(t)] \in Whitespace THEN RStrip(SubSeq(t, 1, Len(t) - 1)) ELSE t

\* str.strip()
Strip(t) == RStrip(LStrip(t))

\* input(): the text typed up to, and without, the first newline
RECURSIVE InputLine(_)
InputLine(typed) ==
  IF typed = <<>> \/ Head(typed) = "\n" THEN <<>>
  ELSE <<Head(typed)>> \o InputLine(Tail(typed))

\* ---- the names tried
Alphabet == {"a", "Z", "7", "-", "_", " ", "\n"}

ShortNames == SeqsUpTo(Alphabet, MaxShort)

Filler(k) == [i \in 1..k |-> "a"]

Edges == { <<>>, <<"-">>, <<"\n">>, <<" ">>, <<"B">> }

\* names of MaxLbName - 1 to MaxLbName + 1 characters
LongNames ==
  { p \o Filler(L - Len(p) - Len(q)) \o q :
      p \in Edges, q \in Edges, L \in (MaxLbName - 1)..(MaxLbName + 1) }

RegionLike ==
  LET near == AwsRegions \cup { << "u", "s", "-", "e", "a", "s", "t", "-", "3" >>, << "e", "u", "-", "w", "e", "s", "t", "-", "1" >> }
      cased == near \cup { UpperOf(r) : r \in near }
                    \cup { <<UpperChar(r[1])>> \o Tail(r) : r \in near }
  IN cased \cup { r \o <<"\n">> : r \in cased }
           \cup { <<" ">> \o r \o <<" ">> : r \in cased }
           \cup { r \o <<"2">> : r \in cased }

ExampleNames ==
  { << "m", "y", "-", "l", "b" >>, << "m", "y", "-", "l", "b", "\n" >>,
    << "-", "b", "a", "d" >>, << "b", "a", "d", "-" >> }

AllNames == ShortNames \cup LongNames \cup RegionLike \cup ExampleNames

\* _validate_lb_name is called with name_arg
Validate ==
  /\ cpc = "start"
  /\ verdict' = ValidateLbName(name_arg)
  /\ cpc' = "validated"
  /\ UNCHANGED << name_arg, lb_name >>
  /\ UNCHANGED << drvVars, runVars, osVars >>

\* lines 105-120: one turn of the prompt loop of from_user_input; a name
\* that passes ends the loop and the AWSConfig is built
PromptLbName ==
  /\ cpc \in {"start", "prompt"}
  /\ \E typed \in AllNames :
       LET name == Strip(InputLine(typed))
       IN /\ name_arg' = name
          /\ verdict' = ValidateLbName(name)
          /\ IF ValidateLbName(name)
             THEN cpc' = "done" /\ lb_name' = name
             ELSE cpc' = "prompt" /\ UNCHANGED lb_name
  /\ UNCHANGED << drvVars, runVars, osVars >>

InitConfig ==
  /\ DriverInit
  /\ ProcInit
  /\ cpc = "start" /\ name_arg \in AllNames /\ verdict = FALSE /\ lb_name = <<>>

NextConfig ==
  \/ Validate
  \/ PromptLbName

SpecConfig == InitConfig /\ [][NextConfig]_vars

\* ================================================================ the claims
Last(q) == q[Len(q)]

IsPrefix(p, q) == Len(p) <= Len(q) /\ \A i \in 1..Len(p) : p[i] = q[i]

InDeploy == calls # <<>> /\ Last(calls) = "deploy"
InDestroy == calls # <<>> /\ Last(calls) = "destroy"

\* the commands whose failure is fatal to run_terraform
FatalCmds == {CmdInit, CmdPlan, CmdShow, CmdApply}

StageOfCmd(cmd) ==
  CASE cmd = CmdInit -> "init"
    [] cmd = CmdPlan -> "plan"
    [] cmd = CmdShow -> "show"
    [] cmd = CmdApply -> "apply"
    [] cmd = CmdOutput -> "output"
    [] OTHER -> "destroy"

FullRun == << CmdInit, CmdPlan, CmdShow, CmdApply, CmdOutput >>

\* C1 (fail-fast): once Init, Plan, Show or Apply has handed back a non-zero
\* exit code, it stays the last command spawned by this run_terraform call,
\* the driver's only next step is the raise, and the finished call has raised
\* the error of that stage (the stages' messages are pairwise distinct).
C1_FailFast ==
  /\ \A c, d \in FatalCmds : c # d => StageFailureMsg(c) # StageFailureMsg(d)
  /\ InDeploy =>
       \A i \in 1..Len(codes) :
         (spawned[i] \in FatalCmds /\ codes[i] # 0) =>
           /\ Len(spawned) = i
           /\ \/ dpc = StageOfCmd(spawned[i]) /\ rpc = "returned"
              \/ /\ dpc = "idle"
                 /\ outcome = "raised"
                 /\ error = << StageFailureMsg(spawned[i]) >>

\* C1 witness: Init exited with code 1 and run_terraform has raised
C1_Witness ==
  /\ InDeploy /\ dpc = "idle"
  /\ spawned = << CmdInit >> /\ codes = << 1 >>
  /\ outcome = "raised"

\* C2 (stage ordering): while every command of a run_terraform call has
\* exited with 0 and Plan did not write "No changes", the commands spawned
\* are a prefix of Init, Plan, Show, Apply, CollectOutputs, each spawned after
\* the one before has returned; a call that returned has spawned all five.
C2_StageOrdering ==
  (InDeploy /\ ~plan_nochg /\ \A i \in 1..Len(codes) : codes[i] = 0) =>
    /\ IsPrefix(spawned, FullRun)
    /\ Len(spawned) <= Len(codes) + 1
    /\ outcome = "returned" => spawned = FullRun

\* C2 witness: a call that ran all five commands, each exiting with 0
C2_Witness ==
  /\ InDeploy /\ dpc = "idle" /\ outcome = "returned"
  /\ ~plan_nochg
  /\ spawned = FullRun
  /\ codes = << 0, 0, 0, 0, 0 >>

C6_PlanShortCircuit ==
  (InDeploy /\ Len(spawned) >= 3 /\ spawned[2] = CmdPlan) =>
    /\ codes[2] = 0
    /\ spawned[3] = CmdShow <=> ~plan_nochg
    /\ plan_nochg => spawned[3] = CmdApply

\* C6 witness: Plan wrote "No changes" and Apply was spawned next
C6_Witness ==
  /\ InDeploy /\ plan_nochg
  /\ Len(spawned) >= 3 /\ spawned[2] = CmdPlan /\ spawned[3] = CmdApply

C9_DestroyIndependence ==
  InDestroy =>
    /\ dpc = "destroy" => spawned = << CmdDestroy >>
    /\ (dpc = "destroy" /\ exited) => ENABLED (DestroyLoop \/ DestroyWait)
    /\ (dpc = "idle" /\ codes # <<>>) =>
         /\ spawned = << CmdDestroy >>
         /\ (outcome = "returned") <=> (codes[1] = 0)
         /\ (outcome = "raised") <=> (codes[1] # 0)

\* C9 witness: destroy_infrastructure, called first in the process, succeeded
C9_Witness ==
  /\ calls = << "destroy" >> /\ dpc = "idle"
  /\ spawned = << CmdDestroy >> /\ codes = << 0 >>
  /\ outcome = "returned"

\* ---- claims the code does not meet
RunnerBlockedOn(fd) ==
  \/ fd = "out" /\ rpc = "readline_out" /\ ~CanRead(pipe_out)
  \/ fd = "err" /\ rpc = "readline_err" /\ ~CanRead(pipe_err)

ChildBlockedOn(fd) ==
  /\ ~exited /\ wpos <= Len(script) /\ script[wpos].fd = fd
  /\ \/ fd = "out" /\ Len(pipe_out) >= PipeCap
     \/ fd = "err" /\ Len(pipe_err) >= PipeCap

\* the child will never write or exit again
ChildSilent ==
  /\ ~exited
  /\ \/ wpos > Len(script) /\ ending = "hang"
     \/ ChildBlockedOn("out")
     \/ ChildBlockedOn("err")

\* C3 (timeout enforcement): run_command does not hand back a result for a
\* child that was still running when the timeout had elapsed, and it is
\* never blocked for good, past the deadline, on a child that is still
\* running: such a child is killed and the call fails with a timeout.
C3_TimeoutEnforced ==
  /\ rpc = "returned" => ~exited_late
  /\ ~ ( /\ expired /\ ~killed
         /\ RunnerBlockedOn("out") \/ RunnerBlockedOn("err")
         /\ ChildSilent )

\* C4 (non-stalling reads): run_command is never blocked reading one stream
\* while the child is blocked writing to the other, full one.
C4_NonStalling ==
  /\ ~ (RunnerBlockedOn("out") /\ ChildBlockedOn("err"))
  /\ ~ (RunnerBlockedOn("err") /\ ChildBlockedOn("out"))

\* C7 (failure detail): when run_terraform has raised because a stage exited
\* non-zero, the error text names the stage and holds every line of stderr
\* that run_command captured from that command.
C7_FailureDetail ==
  ( /\ InDeploy /\ dpc = "idle" /\ outcome = "raised"
    /\ codes # <<>> /\ Len(codes) = Len(spawned) /\ Last(codes) # 0 ) =>
    /\ \E j \in 1..Len(error) : error[j] = StageFailureMsg(Last(spawned))
    /\ \A k \in 1..Len(stderr_lines) :
         \E j \in 1..Len(error) : error[j] = stderr_lines[k].txt

\* what the claim says a valid name is
ClaimedValid(name) ==
  /\ Len(name) >= 1 /\ Len(name) <= MaxLbName
  /\ \A i \in 1..Len(name) : InClass(name[i])
  /\ name[1] # "-" /\ name[Len(name)] # "-"
  /\ LowerOf(name) \notin AwsRegions

\* C10 (load-balancer name validation): _validate_lb_name(name) is true
\* exactly when name has 1 to 32 characters, all of them ASCII letters,
\* digits or hyphens, does not start or end with a hyphen and is not a
\* region name in any case; and the lb_name of a configuration returned by
\* from_user_input is such a name.
C10_LbNameValidation ==
  /\ cpc \in {"validated", "prompt", "done"} => (verdict <=> ClaimedValid(name_arg))
  /\ cpc = "done" => ClaimedValid(lb_name) /\ ValidateLbName(lb_name)

====
